---------------------------- MODULE Spec2Model ----------------------------
(***************************************************************************)
(* Model of cfgraphman (src/src/cfgraphman/main.py): a git object store    *)
(* (blobs, trees, commits, HEAD) that indexes, per file path, the ids of   *)
(* the artifacts that ship the path.                                       *)
(*                                                                         *)
(* Strings are sequences of one-character strings, so that concatenation,  *)
(* splitting on "/" and the substring test of the code are computed as the *)
(* code computes them.  Object ids are positions in content-addressed      *)
(* tables: writing bytes that are already stored yields the stored id.     *)
(***************************************************************************)
EXTENDS Integers, Sequences, FiniteSets, TLC

VARIABLES
    repo_exists,   \* a repository is present at the path (discover_repository)
    blobs,         \* object store: blob id -> data (sequence of characters)
    trees,         \* object store: tree id -> set of entries [name, mode, oid]
    commits,       \* object store: commit id -> [tree, parents, message, author_time]
    head,          \* HEAD: id of the latest commit, 0 while there is no repository
    calls,         \* number of add_artifact_to_repo calls made so far
    processed,     \* history: the descriptors whose addition returned normally
    last,          \* the last operation and how it ended: [op, result, detail]
    cli,           \* the cli process: "idle", "running", "done" or "crashed"
    batch,         \* cli: the descriptors of its artifacts arguments
    pos            \* cli: how many artifacts its loop has taken from batch

vars == <<repo_exists, blobs, trees, commits, head, calls, processed, last,
          cli, batch, pos>>

\* the variables of the cli process
cli_vars == <<cli, batch, pos>>

-----------------------------------------------------------------------------
(* Bounds of the model *)

\* number of add_artifact_to_repo calls explored
MaxAdds == 3

\* number of artifacts given to one run of cli
MaxBatch == 3

-----------------------------------------------------------------------------
(* Program constants *)

\* calendar.timegm((2018, 1, 1, 0, 0, 0, 0, 1, 0))
OLD_TIME == 1514764800

NL == "\n"

\* Python's None, as a tree entry / blob result
None == [mode |-> "none", oid |-> 0]

Entry(mode, oid) == [mode |-> mode, oid |-> oid]

-----------------------------------------------------------------------------
(* Strings *)

Last(s) == s[Len(s)]
Front(s) == SubSeq(s, 1, Len(s) - 1)

\* faulty variant of Contains: equality with the whole content instead of
\* occurrence within it
Contains_Equal(data, pat) == data = pat

\* faulty variant of Contains: pat is looked for at the start of data only
Contains_AtStart(data, pat) ==
    Len(pat) <= Len(data) /\ SubSeq(data, 1, Len(pat)) = pat

\* bytes.__contains__: pat occurs in data as a contiguous substring
Contains(data, pat) ==
    \E i \in 1..(Len(data) - Len(pat) + 1) :
        SubSeq(data, i, i + Len(pat) - 1) = pat

\* str.split(sep) for a one-character separator
RECURSIVE Split(_, _)
Split(s, sep) ==
    IF \A i \in 1..Len(s) : s[i] # sep
    THEN <<s>>
    ELSE LET i == CHOOSE k \in 1..Len(s) :
                      s[k] = sep /\ \A j \in 1..(k - 1) : s[j] # sep
         IN  <<SubSeq(s, 1, i - 1)>> \o Split(SubSeq(s, i + 1, Len(s)), sep)

\* the lines of a blob: the pieces terminated by a newline
Lines(data) ==
    LET parts == Split(data, NL)
    IN  SubSeq(parts, 1, Len(parts) - 1)

-----------------------------------------------------------------------------
(* Artifact descriptors (the parsed json info of load_artifact) *)

IdentityFields == {"subdir", "name", "version", "build"}

\* the outcome of a lookup that may raise KeyError(key)
Found(v) == [ok |-> TRUE, val |-> v, key |-> ""]
KeyError(k) == [ok |-> FALSE, val |-> <<>>, key |-> k]

\* d[k] of a dictionary
GetItem(d, k) == IF k \in DOMAIN d THEN Found(d[k]) ELSE KeyError(k)

\* faulty variant of IndexField: idx.get(field), whose None formats as "None"
IndexField_Get(idx, field) ==
    IF field \in DOMAIN idx THEN Found(idx[field])
    ELSE Found(<<"N", "o", "n", "e">>)

\* idx[field] inside the f-string of info_to_artifact_id
IndexField(idx, field) == GetItem(idx, field)

\* idx = info["index"]
\* f"{idx['subdir']}/{idx['name']}-{idx['version']}-{idx['build']}"
info_to_artifact_id(info) ==
    LET index == GetItem(info, "index")
        subdir == IndexField(index.val, "subdir")
        name == IndexField(index.val, "name")
        version == IndexField(index.val, "version")
        build == IndexField(index.val, "build")
    IN  IF ~index.ok THEN index
        ELSE IF ~subdir.ok THEN subdir
        ELSE IF ~name.ok THEN name
        ELSE IF ~version.ok THEN version
        ELSE IF ~build.ok THEN build
        ELSE Found(subdir.val \o <<"/">> \o name.val \o <<"-">> \o version.val
                       \o <<"-">> \o build.val)

\* int(x / 1000.0): the quotient truncated towards zero
IntDiv1000(x) == IF x >= 0 THEN x \div 1000 ELSE -((-x) \div 1000)

\* timestamp of add_artifact_to_repo: the KeyError of a missing key gives OLD_TIME
AuthorTime(info) ==
    IF "timestamp" \in DOMAIN info.index
    THEN IntDiv1000(info.index.timestamp)
    ELSE OLD_TIME

-----------------------------------------------------------------------------
(* The content-addressed object store *)

\* the id under which content is stored in a table, 0 if it is not
IdOf(table, content) ==
    IF \E i \in 1..Len(table) : table[i] = content
    THEN CHOOSE i \in 1..Len(table) : table[i] = content
    ELSE 0

\* faulty variant of Write: every write stores a new object
Write_Always(table, content) == Append(table, content)

\* writing content: identical content yields the identical id
Write(table, content) ==
    IF IdOf(table, content) # 0 THEN table ELSE Append(table, content)

\* repo.create_blob(data)
create_blob(st, data) ==
    LET b == Write(st.blobs, data)
    IN  [st |-> [st EXCEPT !.blobs = b], oid |-> IdOf(b, data)]

\* faulty variant of TreeBuilder: the builder is never seeded from the old tree
TreeBuilder_Empty(st, self_entry) == {}

\* repo.TreeBuilder() if self_entry is None else repo.TreeBuilder(self_entry)
TreeBuilder(st, self_entry) ==
    IF self_entry = None THEN {} ELSE st.trees[self_entry.oid]

\* faulty variant of tb_insert: the insertion drops the other entries
tb_insert_Only(tb, name, oid, mode) ==
    {[name |-> name, mode |-> mode, oid |-> oid]}

\* TreeBuilder.insert(name, oid, mode): replaces the entry of that name
tb_insert(tb, name, oid, mode) ==
    {e \in tb : e.name # name} \cup {[name |-> name, mode |-> mode, oid |-> oid]}

\* TreeBuilder.write()
tb_write(st, tb) ==
    LET t == Write(st.trees, tb)
    IN  [st |-> [st EXCEPT !.trees = t], oid |-> IdOf(t, tb)]

\* Tree.__getitem__(name), with the KeyError of a missing name caught as None
TreeGet(treeTable, oid, name) ==
    IF \E e \in treeTable[oid] : e.name = name
    THEN LET e == CHOOSE x \in treeTable[oid] : x.name = name
         IN  Entry(e.mode, e.oid)
    ELSE None

-----------------------------------------------------------------------------
(* pygtrie.StringTrie.fromkeys(info["files"], value=True) and its traversal *)

\* the path of every key: key.split("/")
\* faulty variant of TriePaths: only the first key is kept
TriePaths_First(files) ==
    [i \in 1..(IF files = <<>> THEN 0 ELSE 1) |-> Split(files[i], "/")]

\* StringTrie.fromkeys: the keys, split at the separator, in the order given
TriePaths(files) == [i \in 1..Len(files) |-> Split(files[i], "/")]

\* faulty variant of HasValue: every node but the root counts as a file
HasValue_NonRoot(paths, path) == path # <<>>

\* the node at path carries a value: path is one of the keys
HasValue(paths, path) == \E i \in 1..Len(paths) : paths[i] = path

\* key i passes strictly below the node at path
Below(paths, i, path) ==
    /\ Len(paths[i]) > Len(path)
    /\ SubSeq(paths[i], 1, Len(path)) = path

RECURSIVE SortedSeq(_)
SortedSeq(S) ==
    IF S = {} THEN <<>>
    ELSE LET m == CHOOSE x \in S : \A y \in S : x <= y
         IN  <<m>> \o SortedSeq(S \ {m})

\* the steps to the children of the node at path, in insertion order
ChildSteps(paths, path) ==
    LET step(i) == paths[i][Len(path) + 1]
        first == {i \in 1..Len(paths) :
                     /\ Below(paths, i, path)
                     /\ \A j \in 1..(i - 1) :
                            ~(Below(paths, j, path) /\ step(j) = step(i))}
        order == SortedSeq(first)
    IN  [k \in 1..Len(order) |-> step(order[k])]

-----------------------------------------------------------------------------
(* add_artifact_to_repo: the callback of trie.traverse *)

\* what cb hands back: the store, whether it raised, and (name, oid, mode),
\* oid 0 standing for None
Return(st, name, oid, mode) ==
    [st |-> st, err |-> "", ret |-> [name |-> name, oid |-> oid, mode |-> mode]]

\* an exception of type exc leaves cb: what was stored so far stays stored
Raise(st, exc) ==
    [st |-> st, err |-> exc, ret |-> [name |-> <<>>, oid |-> 0, mode |-> "none"]]

\* tree_map.get(path)
MapGet(tree_map, path) ==
    IF path \in DOMAIN tree_map THEN tree_map[path] ELSE None

RECURSIVE cb(_, _, _, _)
RECURSIVE insert_children(_, _, _, _, _, _)

\* for child in children: if child[1] is not None: tb.insert(*child)
\* (children is the lazy traversal of the child nodes, each through cb)
insert_children(paths, artifact_id, path, steps, tb, st) ==
    IF steps = <<>>
    THEN [st |-> st, err |-> "", tb |-> tb]
    ELSE LET child == cb(paths, artifact_id, Append(path, Head(steps)), st)
         IN  IF child.err # ""
             THEN [st |-> child.st, err |-> child.err, tb |-> tb]
             ELSE insert_children(paths, artifact_id, path, Tail(steps),
                      IF child.ret.oid # 0
                      THEN tb_insert(tb, child.ret.name, child.ret.oid,
                                     child.ret.mode)
                      ELSE tb,
                      child.st)

\* cb(path_conv, path, children, is_file): is_file is the value of the node
cb(paths, artifact_id, path, st) ==
    LET parent_tree == MapGet(st.tree_map, Front(path))
        self_entry ==
            IF path = <<>> THEN st.tree_map[path]
            ELSE IF parent_tree = None THEN None
            ELSE TreeGet(st.trees, parent_tree.oid, Last(path))
        line == artifact_id \o <<NL>>
    IN
    IF path # <<>> /\ parent_tree.mode = "blob"
    THEN Raise(st, "TypeError")          \* a Blob has no __getitem__
    ELSE IF HasValue(paths, path)
    THEN IF self_entry = None
         THEN LET b == create_blob(st, line)
              IN  Return(b.st, Last(path), b.oid, "blob")
         ELSE IF self_entry.mode # "blob"
         THEN Raise(st, "AttributeError")    \* a Tree has no data
         ELSE LET old_data == st.blobs[self_entry.oid]
              IN  IF Contains(old_data, line)
                  THEN Return(st, Last(path), 0, "blob")
                  ELSE LET b == create_blob(st, old_data \o line)
                       IN  Return(b.st, Last(path), b.oid, "blob")
    ELSE LET st1 == [st EXCEPT !.tree_map = (path :> self_entry) @@ @]
         IN  IF self_entry # None /\ self_entry.mode # "tree"
             THEN Raise(st1, "TypeError")    \* TreeBuilder of a Blob
             ELSE LET tb0 == TreeBuilder(st1, self_entry)
                      r == insert_children(paths, artifact_id, path,
                                           ChildSteps(paths, path), tb0, st1)
                  IN  IF r.err # ""
                      THEN Raise(r.st, r.err)
                      ELSE LET w == tb_write(r.st, r.tb)
                               st2 == [w.st EXCEPT !.tree_map =
                                          (path :> Entry("tree", w.oid)) @@ @]
                           IN  Return(st2,
                                      IF path = <<>> THEN <<>> ELSE Last(path),
                                      w.oid, "tree")

\* root = trie.traverse(cb), starting from tree_map = {(): current_tree}
traverse(files, artifact_id, blobTable, treeTable, current_tree) ==
    cb(TriePaths(files), artifact_id, <<>>,
       [blobs |-> blobTable, trees |-> treeTable,
        tree_map |-> (<<>> :> Entry("tree", current_tree))])

-----------------------------------------------------------------------------
(* Inputs: the descriptors handed to add_artifact_to_repo *)

Key_a   == <<"a">>
Key_ab  == <<"a", "/", "b">>
Key_dx  == <<"d", "/", "x">>
Key_dy  == <<"d", "/", "y">>
Key_dez == <<"d", "/", "e", "/", "z">>

\* info["files"]: a top-level file, a file below a directory of the same name,
\* both at once, siblings of one directory, a nested directory
FileLists ==
    { <<>>, <<Key_a>>, <<Key_ab>>, <<Key_a, Key_ab>>,
      <<Key_dx, Key_dy>>, <<Key_dx>>, <<Key_dez, Key_a>> }

\* "4" is a proper suffix of "64": so is the id built from it
Subdirs == { <<"6", "4">>, <<"4">> }

Index(subdir) ==
    [subdir |-> subdir, name |-> <<"f">>, version |-> <<"1">>, build |-> <<"0">>]

\* milliseconds since the epoch
Timestamps == { 1999, -1500 }

WellFormed ==
    { [index |-> Index(sd), files |-> fl] : sd \in Subdirs, fl \in FileLists }

\* a third artifact, with a timestamp
Timestamped ==
    { [index |-> [subdir |-> <<"3", "2">>, name |-> <<"f">>, version |-> <<"1">>,
                  build |-> <<"0">>, timestamp |-> t],
       files |-> <<Key_dx>>] : t \in Timestamps }

\* the index without one of its identity fields, no index, no files
Malformed ==
    { [index |-> [f \in IdentityFields \ {g} |-> Index(<<"4">>)[f]],
       files |-> <<Key_a>>] : g \in IdentityFields }
    \cup { [files |-> <<Key_a>>] }
    \cup { [index |-> Index(<<"4">>)] }

Infos == WellFormed \cup Timestamped \cup Malformed

-----------------------------------------------------------------------------
(* State *)

\* Signature(name, email, time=-1): the time of a signature made without one
DefaultTime == -1

\* a reading of the clock: some time after OLD_TIME
Now == OLD_TIME + 1

\* Signature(name, email, time): a time of -1 stands for no time given, and
\* the signature carries the current time
Signature(time) == IF time = DefaultTime THEN Now ELSE time

StrInitialCommit ==
    <<"I", "n", "i", "t", "i", "a", "l", " ", "c", "o", "m", "m", "i", "t">>
StrAdding == <<"A", "d", "d", "i", "n", "g", " ">>

Init ==
    /\ repo_exists = FALSE
    /\ blobs = <<>>
    /\ trees = <<>>
    /\ commits = <<>>
    /\ head = 0
    /\ calls = 0
    /\ processed = <<>>
    /\ last = [op |-> "none", result |-> "", detail |-> ""]
    /\ cli = "idle"
    /\ batch = <<>>
    /\ pos = 0

\* faulty variant of Commit: the parents are left empty, as in init_repo
Commit_NoParents(tree, parents, message, author_time) ==
    [tree |-> tree, parents |-> <<>>, message |-> message,
     author_time |-> author_time]

\* repo.create_commit(ref, author, committer, message, tree, parents):
\* the commit object
Commit(tree, parents, message, author_time) ==
    [tree |-> tree, parents |-> parents, message |-> message,
     author_time |-> author_time]

-----------------------------------------------------------------------------
(* Operations *)

\* faulty variant of init_repo: the repository is initialised without a
\* look for an existing one
init_repo_Always ==
    LET t == Write(trees, {})
        c == Commit(IdOf(t, {}), <<>>, StrInitialCommit, Signature(DefaultTime))
    IN  /\ repo_exists' = TRUE
        /\ trees' = t
        /\ commits' = Write(commits, c)
        /\ head' = IdOf(commits', c)
        /\ last' = [op |-> "init_repo", result |-> "created", detail |-> ""]
        /\ UNCHANGED <<blobs, calls, processed>>

\* init_repo(path)
init_repo ==
    /\ IF repo_exists
       THEN /\ UNCHANGED <<repo_exists, trees, commits, head>>
            /\ last' = [op |-> "init_repo", result |-> "opened", detail |-> ""]
       ELSE LET t == Write(trees, {})
                c == Write(commits,
                           Commit(IdOf(t, {}), <<>>, StrInitialCommit,
                                  Signature(DefaultTime)))
            IN  /\ repo_exists' = TRUE
                /\ trees' = t
                /\ commits' = c
                /\ head' = Len(c)
                /\ last' = [op |-> "init_repo", result |-> "created",
                            detail |-> ""]
    /\ UNCHANGED <<blobs, calls, processed>>

\* faulty variant of CommitRoot: an exception of traverse is swallowed and a
\* commit of the unchanged tree is created all the same
CommitRoot_Anyway(root, artifact_id, files, author_time) ==
    LET c == Commit(IF root.err # "" THEN commits[head].tree ELSE root.ret.oid,
                    <<head>>, StrAdding \o artifact_id, author_time)
    IN  /\ commits' = Write(commits, c)
        /\ head' = IdOf(commits', c)
        /\ processed' = IF root.err # "" THEN processed
                        ELSE Append(processed,
                                    [id |-> artifact_id, files |-> files])
        /\ last' = [op |-> "add",
                    result |-> IF root.err # "" THEN root.err ELSE "ok",
                    detail |-> ""]

\* faulty variant of CommitRoot: the commit is created without a reference to
\* update, so that head stays where it was
CommitRoot_Detached(root, artifact_id, files, author_time) ==
    IF root.err # ""
    THEN /\ UNCHANGED <<commits, head, processed>>
         /\ last' = [op |-> "add", result |-> root.err, detail |-> ""]
    ELSE LET c == Commit(root.ret.oid, <<head>>, StrAdding \o artifact_id,
                         author_time)
         IN  /\ commits' = Write(commits, c)
             /\ head' = head
             /\ processed' = Append(processed,
                                    [id |-> artifact_id, files |-> files])
             /\ last' = [op |-> "add", result |-> "ok", detail |-> ""]

\* root = trie.traverse(cb); repo.create_commit(ref, ..., root, parents):
\* an exception raised inside traverse leaves add_artifact_to_repo before
\* the commit is created
CommitRoot(root, artifact_id, files, author_time) ==
    IF root.err # ""
    THEN /\ UNCHANGED <<commits, head, processed>>
         /\ last' = [op |-> "add", result |-> root.err, detail |-> ""]
    ELSE LET c == Commit(root.ret.oid, <<head>>, StrAdding \o artifact_id,
                         author_time)
         IN  /\ commits' = Write(commits, c)
             /\ head' = IdOf(commits', c)
             /\ processed' = Append(processed,
                                    [id |-> artifact_id, files |-> files])
             /\ last' = [op |-> "add", result |-> "ok", detail |-> ""]

\* add_artifact_to_repo(repo, info)
add_artifact_to_repo(info) ==
    /\ repo_exists
    /\ calls' = calls + 1
    /\ LET artifact_id == info_to_artifact_id(info)
           files == GetItem(info, "files")
       IN  IF ~artifact_id.ok \/ ~files.ok
           THEN /\ UNCHANGED <<blobs, trees, commits, head, processed>>
                /\ last' = [op |-> "add", result |-> "KeyError",
                            detail |-> IF ~artifact_id.ok THEN artifact_id.key
                                       ELSE files.key]
           ELSE LET current_commit == head
                    current_tree == commits[current_commit].tree
                    root == traverse(files.val, artifact_id.val, blobs, trees,
                                     current_tree)
                IN  /\ blobs' = root.st.blobs
                    /\ trees' = root.st.trees
                    /\ CommitRoot(root, artifact_id.val, files.val,
                                  Signature(AuthorTime(info)))
    /\ UNCHANGED repo_exists

\* a call of init_repo from outside cli
InitRepo == init_repo /\ UNCHANGED cli_vars

\* a call of add_artifact_to_repo from outside cli
AddArtifact(info) ==
    /\ calls < MaxAdds
    /\ add_artifact_to_repo(info)
    /\ UNCHANGED cli_vars

Next ==
    \/ InitRepo
    \/ \E info \in Infos : AddArtifact(info)

Spec == Init /\ [][Next]_vars

-----------------------------------------------------------------------------
(* cli: one run over a batch of artifacts *)

\* the descriptors load_artifact yields for the artifacts of a run
CliInfos ==
    { [index |-> Index(<<"6", "4">>), files |-> <<Key_a>>],
      [index |-> Index(<<"4">>), files |-> <<Key_dx>>],
      [index |-> Index(<<"6", "4">>), files |-> <<Key_dx, Key_dy>>],
      [index |-> [f \in IdentityFields \ {"build"} |-> Index(<<"4">>)[f]],
       files |-> <<Key_a>>],
      [index |-> Index(<<"4">>)] }

RECURSIVE SeqsUpTo(_, _)
SeqsUpTo(S, n) ==
    IF n = 0 THEN {<<>>}
    ELSE LET shorter == SeqsUpTo(S, n - 1)
         IN  shorter \cup {Append(q, x) : q \in shorter, x \in S}

Batches == SeqsUpTo(CliInfos, MaxBatch)

\* cli(repo, file, artifacts) up to its loop: repo = init_repo(repo)
CliStart(artifacts) ==
    /\ cli = "idle"
    /\ init_repo
    /\ cli' = "running"
    /\ batch' = artifacts
    /\ pos' = 0

\* one turn of the loop: info = load_artifact(artifact);
\* add_artifact_to_repo(repo, info); nothing catches an exception of the
\* call, which ends cli
CliStep ==
    /\ cli = "running"
    /\ pos < Len(batch)
    /\ add_artifact_to_repo(batch[pos + 1])
    /\ pos' = pos + 1
    /\ cli' = IF last'.result = "ok" THEN "running" ELSE "crashed"
    /\ UNCHANGED batch

\* the loop has gone through all artifacts: cli returns
CliExit ==
    /\ cli = "running"
    /\ pos = Len(batch)
    /\ cli' = "done"
    /\ UNCHANGED <<repo_exists, blobs, trees, commits, head, calls, processed,
                   last, batch, pos>>

NextCli ==
    \/ \E artifacts \in Batches : CliStart(artifacts)
    \/ CliStep
    \/ CliExit

SpecCli == Init /\ [][NextCli]_vars

-----------------------------------------------------------------------------
(* Reading a snapshot *)

\* the tree of a commit
TreeOf(c) == commits[c].tree

\* the tree of the commit HEAD points to
HeadTree == TreeOf(head)

\* the entry a path resolves to from the tree oid, walking the directories
RECURSIVE Resolve(_, _, _)
Resolve(treeTable, oid, path) ==
    IF path = <<>> THEN Entry("tree", oid)
    ELSE LET e == TreeGet(treeTable, oid, Head(path))
         IN  IF Len(path) = 1 THEN e
             ELSE IF e.mode = "tree" THEN Resolve(treeTable, e.oid, Tail(path))
             ELSE None

\* the paths of all files below the tree oid, each prefixed by prefix
RECURSIVE FilesUnder(_, _, _)
FilesUnder(treeTable, oid, prefix) ==
    UNION { IF e.mode = "blob" THEN {Append(prefix, e.name)}
            ELSE FilesUnder(treeTable, e.oid, Append(prefix, e.name))
            : e \in treeTable[oid] }

\* the paths of all directories below the tree oid
RECURSIVE DirsUnder(_, _, _)
DirsUnder(treeTable, oid, prefix) ==
    UNION { IF e.mode = "blob" THEN {}
            ELSE {Append(prefix, e.name)}
                     \cup DirsUnder(treeTable, e.oid, Append(prefix, e.name))
            : e \in treeTable[oid] }

\* the lines of the blob at path in the tree oid (none if there is no blob)
LinesAt(oid, path) ==
    LET e == Resolve(trees, oid, path)
    IN  IF e.mode = "blob" THEN Lines(blobs[e.oid]) ELSE <<>>

\* the paths of a descriptor's files
PathsOf(files) == {Split(files[i], "/") : i \in 1..Len(files)}

Occurs(seq, x) == \E i \in 1..Len(seq) : seq[i] = x

NoDuplicates(seq) ==
    \A i, j \in 1..Len(seq) : i # j => seq[i] # seq[j]

\* position of the first occurrence of x in seq, 0 if there is none
IndexIn(seq, x) ==
    IF Occurs(seq, x)
    THEN CHOOSE i \in 1..Len(seq) :
             seq[i] = x /\ \A j \in 1..(i - 1) : seq[j] # x
    ELSE 0

-----------------------------------------------------------------------------
(* C1 *)

\* C1: after any sequence of additions, no blob reachable from the head
\* snapshot has two equal lines: no artifact id is recorded twice for a path.
C1_NoDuplicateLines ==
    repo_exists =>
        \A path \in FilesUnder(trees, HeadTree, <<>>) :
            NoDuplicates(LinesAt(HeadTree, path))

\* the same id was added twice for one path, and the path holds a blob
C1_Witness ==
    /\ repo_exists
    /\ \E i, j \in 1..Len(processed) :
          /\ i < j
          /\ processed[i].id = processed[j].id
          /\ \E path \in PathsOf(processed[i].files) \cap PathsOf(processed[j].files) :
                Occurs(LinesAt(HeadTree, path), processed[i].id)

-----------------------------------------------------------------------------
(* C2 *)

\* C2: completeness: for every path of every processed descriptor, the blob
\* at the path in the head snapshot has the descriptor's id as one of its lines.
C2_Completeness ==
    repo_exists =>
        \A i \in 1..Len(processed) :
            \A path \in PathsOf(processed[i].files) :
                Occurs(LinesAt(HeadTree, path), processed[i].id)

-----------------------------------------------------------------------------
(* C3 *)

\* the position in the history of the first addition of id with path among
\* its files, 0 if there is none
FirstAdded(id, path) ==
    LET hits == {i \in 1..Len(processed) :
                    processed[i].id = id /\ path \in PathsOf(processed[i].files)}
    IN  IF hits = {} THEN 0
        ELSE CHOOSE i \in hits : \A j \in hits : i <= j

\* C3: append order: if A1 was added before A2, with distinct ids, and both
\* file sets contain path P, the blob at P lists A1's id before A2's id.
C3_AppendOrder ==
    repo_exists =>
        \A i, j \in 1..Len(processed) :
            \A path \in PathsOf(processed[i].files) \cap PathsOf(processed[j].files) :
                (/\ processed[i].id # processed[j].id
                 /\ FirstAdded(processed[i].id, path) = i
                 /\ FirstAdded(processed[j].id, path) = j
                 /\ i < j) =>
                    LET ls == LinesAt(HeadTree, path)
                    IN  /\ IndexIn(ls, processed[i].id) > 0
                        /\ IndexIn(ls, processed[j].id) > 0
                        /\ IndexIn(ls, processed[i].id) < IndexIn(ls, processed[j].id)

-----------------------------------------------------------------------------
(* Steps of the history *)

\* this step is an addition that returned normally
AddedStep == Len(processed') = Len(processed) + 1

\* the descriptor that this step added
Added == processed'[Len(processed')]

\* this step is an addition that raised
FailedStep == calls' = calls + 1 /\ last'.result # "ok"

\* path p is path q or a directory above it
IsPrefix(p, q) == Len(p) <= Len(q) /\ SubSeq(q, 1, Len(p)) = p

\* none of the paths of files falls under the directory dir
Untouched(dir, files) == \A q \in PathsOf(files) : ~IsPrefix(dir, q)

\* table is extended at its end only: what was stored stays as stored
Extends(new, old) ==
    Len(new) >= Len(old) /\ SubSeq(new, 1, Len(old)) = old

\* the commit before HEAD, and its tree
Parent == commits[head].parents[1]
ParentTree == TreeOf(Parent)

\* the descriptor whose addition made HEAD
LastAdded == processed[Len(processed)]

-----------------------------------------------------------------------------
(* C4 *)

\* C4: subtree reuse: an addition leaves every directory of the previous
\* snapshot under which none of the artifact's paths fall represented by the
\* same tree object, with the same children.
C4_SubtreeReuse ==
    [][AddedStep =>
          \A dir \in DirsUnder(trees, HeadTree, <<>>) :
              Untouched(dir, Added.files) =>
                  LET old == Resolve(trees, HeadTree, dir)
                      new == Resolve(trees', HeadTree', dir)
                  IN  new = old /\ trees'[new.oid] = trees[old.oid]]_vars

\* the last addition rebuilt a directory and left a directory inside it alone
C4_Witness ==
    /\ last.result = "ok"
    /\ Len(processed) >= 1
    /\ \E dir \in DirsUnder(trees, ParentTree, <<>>) :
          /\ Len(dir) >= 2
          /\ Untouched(dir, LastAdded.files)
          /\ Resolve(trees, HeadTree, Front(dir))
                 # Resolve(trees, ParentTree, Front(dir))
          /\ Resolve(trees, HeadTree, dir) = Resolve(trees, ParentTree, dir)

-----------------------------------------------------------------------------
(* C5 *)

\* C5: an addition changes the blobs on the touched paths only: every file of
\* the previous snapshot that is not among the artifact's files resolves to
\* the same blob, with the same content, in the new snapshot.
C5_OtherBlobsKept ==
    [][AddedStep =>
          \A path \in FilesUnder(trees, HeadTree, <<>>) \ PathsOf(Added.files) :
              LET old == Resolve(trees, HeadTree, path)
                  new == Resolve(trees', HeadTree', path)
              IN  new = old /\ blobs'[new.oid] = blobs[old.oid]]_vars

\* the last addition changed one file of a directory and kept its sibling
C5_Witness ==
    /\ last.result = "ok"
    /\ Len(processed) >= 1
    /\ \E p \in FilesUnder(trees, ParentTree, <<>>) \ PathsOf(LastAdded.files) :
          \E q \in PathsOf(LastAdded.files) :
              /\ Len(p) >= 2
              /\ Front(p) = Front(q)
              /\ Resolve(trees, ParentTree, q).mode = "blob"
              /\ Resolve(trees, HeadTree, q) # Resolve(trees, ParentTree, q)
              /\ Resolve(trees, HeadTree, p) = Resolve(trees, ParentTree, p)

-----------------------------------------------------------------------------
(* C6 *)

\* the commits visited walking the parent references from commit c
RECURSIVE Ancestry(_)
Ancestry(c) ==
    IF commits[c].parents = <<>> THEN <<c>>
    ELSE <<c>> \o Ancestry(commits[c].parents[1])

\* C6: linearity: after bootstrap and N successful additions the walk from
\* head along the parents visits exactly N+1 commits, each with exactly one
\* parent except the bootstrap commit, the last of the walk, which has none.
C6_Linearity ==
    repo_exists =>
        LET walk == Ancestry(head)
        IN  /\ Len(walk) = Len(processed) + 1
            /\ \A k \in 1..(Len(walk) - 1) : Len(commits[walk[k]].parents) = 1
            /\ commits[walk[Len(walk)]].parents = <<>>
            /\ commits[walk[Len(walk)]].message = StrInitialCommit

\* two additions have been committed on top of the bootstrap commit
C6_Witness ==
    /\ repo_exists
    /\ Len(processed) >= 2
    /\ Len(Ancestry(head)) >= 3

-----------------------------------------------------------------------------
(* C7 *)

\* C7: a successful addition creates exactly one commit, whose only parent is
\* the head before the addition and whose tree is the result of the merge,
\* and moves head to it; the commits that existed are unchanged.
C7_OneCommitPerAddition ==
    [][AddedStep =>
          /\ Len(commits') = Len(commits) + 1
          /\ SubSeq(commits', 1, Len(commits)) = commits
          /\ head' = Len(commits')
          /\ commits'[head'].parents = <<head>>
          /\ commits'[head'].tree =
                 traverse(Added.files, Added.id, blobs, trees, HeadTree).ret.oid
          /\ commits'[head'].tree \in 1..Len(trees')]_vars

\* an addition has just been committed on top of an earlier addition
C7_Witness ==
    /\ last.op = "add"
    /\ last.result = "ok"
    /\ Len(processed) >= 2
    /\ commits[Parent].parents # <<>>

-----------------------------------------------------------------------------
(* C8 *)

\* C8: soundness: every line of the blob at a path of the head snapshot is
\* the id of a processed artifact whose files contain the path.
C8_Soundness ==
    repo_exists =>
        \A path \in FilesUnder(trees, HeadTree, <<>>) :
            LET ls == LinesAt(HeadTree, path)
            IN  \A k \in 1..Len(ls) : FirstAdded(ls[k], path) > 0

\* a blob of the head snapshot lists two ids while another artifact, which
\* does not ship the path, has been added as well
C8_Witness ==
    /\ repo_exists
    /\ \E path \in FilesUnder(trees, HeadTree, <<>>) :
          /\ Len(LinesAt(HeadTree, path)) >= 2
          /\ \E i \in 1..Len(processed) :
                /\ path \notin PathsOf(processed[i].files)
                /\ processed[i].files # <<>>
                /\ ~Occurs(LinesAt(HeadTree, path), processed[i].id)

-----------------------------------------------------------------------------
(* C9 *)

\* commits or head change only in a step that ended normally
CommitOnlyOnSuccess ==
    (commits' # commits \/ head' # head) =>
        last'.result \in {"ok", "created"}

\* C9 as claimed: commit and head move only after the merge has succeeded,
\* and an addition that fails adds no blob, no tree and no commit to the
\* object store and leaves head unchanged.
C9_NothingPersisted ==
    [][/\ CommitOnlyOnSuccess
       /\ FailedStep => UNCHANGED <<blobs, trees, commits, head>>]_vars

\* C9 as amended: commit and head move only after the merge has succeeded; an
\* addition that fails adds no commit and leaves head and every stored object
\* unchanged, so that the head snapshot is unchanged; the blobs and trees the
\* merge wrote before it failed stay in the object store, unreachable.
C9_NoCommitOnFailure ==
    [][/\ CommitOnlyOnSuccess
       /\ FailedStep =>
             /\ UNCHANGED <<commits, head, processed>>
             /\ Extends(blobs', blobs)
             /\ Extends(trees', trees)]_vars

\* the blobs reachable from the tree oid
RECURSIVE BlobsUnder(_, _)
BlobsUnder(treeTable, oid) ==
    UNION { IF e.mode = "blob" THEN {e.oid} ELSE BlobsUnder(treeTable, e.oid)
            : e \in treeTable[oid] }

\* the last addition failed inside the merge and left a blob that no commit
\* reaches
C9_Witness ==
    /\ last.op = "add"
    /\ last.result \in {"AttributeError", "TypeError"}
    /\ \E b \in 1..Len(blobs) :
          \A c \in 1..Len(commits) : b \notin BlobsUnder(trees, TreeOf(c))

-----------------------------------------------------------------------------
(* C10 *)

\* the descriptor lacks a required identity field
MissingIdentity(info) ==
    \/ "index" \notin DOMAIN info
    \/ \E f \in IdentityFields : f \notin DOMAIN info.index

\* C10: the addition of a descriptor that lacks subdir, name, version or
\* build fails with an error before the merge: no blob, tree or commit is
\* written, head and the snapshot are unchanged.
C10_MalformedDescriptor ==
    [][\A info \in Infos :
          (MissingIdentity(info) /\ AddArtifact(info)) =>
              /\ UNCHANGED <<blobs, trees, commits, head, processed>>
              /\ last'.result = "KeyError"]_vars

\* an addition has just failed on a missing identity field, in a repository
\* that already holds an artifact
C10_Witness ==
    /\ last.op = "add"
    /\ last.result = "KeyError"
    /\ last.detail \in IdentityFields
    /\ Len(processed) >= 1

-----------------------------------------------------------------------------
(* C11 *)

\* the descriptor has its identity fields and its files
WellFormedInfo(info) == ~MissingIdentity(info) /\ "files" \in DOMAIN info

\* the commit of an artifact is in the history of head
Committed(info) ==
    /\ \E k \in 1..Len(processed) :
          processed[k] = [id |-> info_to_artifact_id(info).val,
                          files |-> info.files]
    /\ \E k \in 1..Len(Ancestry(head)) :
          commits[Ancestry(head)[k]].message
              = StrAdding \o info_to_artifact_id(info).val

\* C11: failures are isolated in a batch: once cli has ended, every
\* well-formed artifact that came after a malformed one in the batch has
\* been processed and has its commit.
C11_BatchIsolation ==
    cli \in {"done", "crashed"} =>
        \A i, j \in 1..Len(batch) :
            (i < j /\ ~WellFormedInfo(batch[i]) /\ WellFormedInfo(batch[j]))
                => Committed(batch[j])

-----------------------------------------------------------------------------
(* C12 *)

\* one path of files is a directory above another path of files
SelfConflict(files) ==
    \E p, q \in PathsOf(files) : p # q /\ IsPrefix(p, q)

\* C12: a descriptor one of whose paths is both a file and a directory above
\* another of its paths is refused with an error: no commit is created in
\* which one of the descriptor's paths is missing from the snapshot.
C12_StructuralConflict ==
    (repo_exists /\ Len(processed) >= 1 /\ SelfConflict(LastAdded.files)) =>
        \A path \in PathsOf(LastAdded.files) :
            Resolve(trees, HeadTree, path).mode = "blob"

-----------------------------------------------------------------------------
(* C13 *)

\* C13: the addition of a descriptor with an empty files list leaves the
\* snapshot unchanged: the new commit has the tree object of the previous
\* head; one commit is created all the same and head moves to it.
C13_EmptyFiles ==
    [][(AddedStep /\ Added.files = <<>>) =>
          /\ HeadTree' = HeadTree
          /\ trees' = trees
          /\ blobs' = blobs
          /\ Len(commits') = Len(commits) + 1
          /\ head' = Len(commits')
          /\ head' # head
          /\ commits'[head'].parents = <<head>>]_vars

\* a descriptor without files has just been added to a snapshot with files
C13_Witness ==
    /\ last.op = "add"
    /\ last.result = "ok"
    /\ Len(processed) >= 2
    /\ LastAdded.files = <<>>
    /\ trees[ParentTree] # {}
    /\ HeadTree = ParentTree
    /\ head # Parent

-----------------------------------------------------------------------------
(* C14 *)

\* the blob at path after the step is the blob before it, grown by at most
\* the line of the added id; a path that had no entry gets that line alone
GrownByAppend(path, id) ==
    LET old == Resolve(trees, HeadTree, path)
        new == Resolve(trees', HeadTree', path)
        line == id \o <<NL>>
    IN  /\ new.mode = "blob"
        /\ IF old = None
           THEN blobs'[new.oid] = line
           ELSE /\ old.mode = "blob"
                /\ \/ blobs'[new.oid] = blobs[old.oid]
                   \/ blobs'[new.oid] = blobs[old.oid] \o line

\* C14: blobs only grow by appending: after an addition, every path of the
\* artifact that did not exist holds exactly the id and a newline, and every
\* path that existed holds its old content, or its old content followed by
\* exactly the id and a newline.
C14_AppendOnly ==
    [][AddedStep =>
          \A path \in PathsOf(Added.files) : GrownByAppend(path, Added.id)]_vars

-----------------------------------------------------------------------------
(* C15 *)

\* id is a line of the blob at every path of files in the tree oid
RecordedEverywhere(oid, files, id) ==
    \A path \in PathsOf(files) : Occurs(LinesAt(oid, path), id)

\* C15: idempotent re-addition: the addition of a descriptor whose id is
\* already recorded at every one of its paths yields the root tree of the
\* previous snapshot, every directory on its paths being the object it was,
\* and no new blob or tree; a new commit is created all the same.
C15_IdempotentReAdd ==
    [][(AddedStep /\ RecordedEverywhere(HeadTree, Added.files, Added.id)) =>
          /\ HeadTree' = HeadTree
          /\ \A path \in PathsOf(Added.files) :
                \A n \in 0..Len(path) :
                    Resolve(trees', HeadTree', SubSeq(path, 1, n))
                        = Resolve(trees, HeadTree, SubSeq(path, 1, n))
          /\ trees' = trees
          /\ blobs' = blobs
          /\ Len(commits') = Len(commits) + 1
          /\ head' = Len(commits')
          /\ commits'[head'].parents = <<head>>]_vars

\* a descriptor has just been added again: its id was recorded at all of its
\* paths, one of them inside a directory
C15_Witness ==
    /\ last.op = "add"
    /\ last.result = "ok"
    /\ Len(processed) >= 2
    /\ LastAdded.files # <<>>
    /\ \E path \in PathsOf(LastAdded.files) : Len(path) >= 2
    /\ RecordedEverywhere(ParentTree, LastAdded.files, LastAdded.id)
    /\ HeadTree = ParentTree
    /\ head # Parent

-----------------------------------------------------------------------------
(* C16 *)

\* the ids that the descriptors of the model form
Ids == {info_to_artifact_id(info).val :
            info \in {i \in Infos : info_to_artifact_id(i).ok}}

\* s is a proper suffix of t
IsProperSuffix(s, t) ==
    Len(s) < Len(t) /\ SubSeq(t, Len(t) - Len(s) + 1, Len(t)) = s

\* id is a proper suffix of one of the lines
SuffixOfRecorded(id, lines) ==
    \E i \in 1..Len(lines) : IsProperSuffix(id, lines[i])

\* the test of the leaf: id and a newline occur in the content
LeafTest(data, id) == Contains(data, id \o <<NL>>)

\* on every stored blob the test of the leaf answers as membership in the
\* lines does, for every id that is no proper suffix of a line
TestIsMembership ==
    \A i \in 1..Len(blobs) : \A id \in Ids :
        ~SuffixOfRecorded(id, Lines(blobs[i])) =>
            (LeafTest(blobs[i], id) <=> Occurs(Lines(blobs[i]), id))

\* an addition appends its id to every blob of its paths that lacks it as a
\* line, unless the id is a proper suffix of a line of that blob
NewIdNotSkipped ==
    AddedStep =>
        \A path \in PathsOf(Added.files) :
            LET old == Resolve(trees, HeadTree, path)
                new == Resolve(trees', HeadTree', path)
            IN  (/\ old.mode = "blob"
                 /\ ~Occurs(Lines(blobs[old.oid]), Added.id)
                 /\ ~SuffixOfRecorded(Added.id, Lines(blobs[old.oid])))
                => /\ new.mode = "blob"
                   /\ blobs'[new.oid] = blobs[old.oid] \o Added.id \o <<NL>>

\* C16: for the newline-free ids, the substring test of the leaf for the id
\* and a newline in the content of a blob answers as the membership of the
\* id in the lines of the blob, whenever the id is not a proper suffix of a
\* line; under that condition an id that is not yet a line is never skipped.
C16_SubstringIsMembership ==
    /\ \A id \in Ids : ~Occurs(id, NL)
    /\ []TestIsMembership
    /\ [][NewIdNotSkipped]_vars

\* an id that was no line, and no proper suffix of a line, of an existing
\* blob has just been appended to it, where a shorter test would have
\* found a line of it
C16_Witness ==
    /\ last.op = "add"
    /\ last.result = "ok"
    /\ \E path \in PathsOf(LastAdded.files) :
          LET old == Resolve(trees, ParentTree, path)
              new == Resolve(trees, HeadTree, path)
          IN  /\ old.mode = "blob"
              /\ new.mode = "blob"
              /\ ~Occurs(Lines(blobs[old.oid]), LastAdded.id)
              /\ ~SuffixOfRecorded(LastAdded.id, Lines(blobs[old.oid]))
              /\ ~LeafTest(blobs[old.oid], LastAdded.id)
              /\ LeafTest(blobs[new.oid], LastAdded.id)
              /\ Len(Lines(blobs[new.oid])) = 2

-----------------------------------------------------------------------------
(* C17 *)

\* the paths of the files of the head snapshot
HeadPaths == FilesUnder(trees, HeadTree, <<>>)

\* the union of the file sets of the descriptors added so far
ShippedPaths == UNION {PathsOf(processed[i].files) : i \in 1..Len(processed)}

\* no descriptor added so far lists a path that is a directory above
\* another of its paths (a conflict with the paths of an earlier descriptor
\* makes the addition raise, so that descriptor is not among the added)
NoConflicts == \A i \in 1..Len(processed) : ~SelfConflict(processed[i].files)

\* the head snapshot holds the shipped paths and no others
PathsAreShipped ==
    repo_exists =>
        /\ HeadPaths \subseteq ShippedPaths
        /\ NoConflicts => HeadPaths = ShippedPaths

\* a path of the head snapshot is a path of every later head snapshot
PathsStay == repo_exists => HeadPaths \subseteq HeadPaths'

\* C17: the file paths that resolve in the head snapshot are the union of
\* the file sets of the descriptors added with success, given that no
\* leaf/directory conflict occurred; a path once present is present in
\* every later snapshot, and no path appears that no added descriptor
\* shipped.
C17_PathsAreUnion ==
    /\ []PathsAreShipped
    /\ [][PathsStay]_vars

\* two descriptors with different file sets were added without conflict,
\* and the head snapshot holds the paths of both, some inside a directory
C17_Witness ==
    /\ repo_exists
    /\ NoConflicts
    /\ \E i, j \in 1..Len(processed) :
          /\ ~(PathsOf(processed[i].files) \subseteq PathsOf(processed[j].files))
          /\ ~(PathsOf(processed[j].files) \subseteq PathsOf(processed[i].files))
    /\ HeadPaths = ShippedPaths
    /\ Cardinality(HeadPaths) >= 3
    /\ \E path \in HeadPaths : Len(path) >= 2

-----------------------------------------------------------------------------
(* C18 *)

\* path is listed as a file where the tree oid has a directory
FileOverDirectory(oid, path) == Resolve(trees, oid, path).mode = "tree"

\* path lies below a path that is a file in the tree oid
BelowFile(oid, path) ==
    \E n \in 1..(Len(path) - 1) :
        Resolve(trees, oid, SubSeq(path, 1, n)).mode = "blob"

\* the files conflict in kind with the tree oid
KindConflict(oid, files) ==
    \E path \in PathsOf(files) :
        FileOverDirectory(oid, path) \/ BelowFile(oid, path)

\* C18: the addition of a descriptor that lists as a file a path that is a
\* directory in the previous snapshot, or a path below a path that is a file
\* in the previous snapshot, fails before a commit is created: head and the
\* head snapshot are unchanged.
C18_KindConflict ==
    [][\A info \in Infos :
          (/\ WellFormedInfo(info)
           /\ repo_exists
           /\ KindConflict(HeadTree, info.files)
           /\ AddArtifact(info)) =>
              /\ last'.result # "ok"
              /\ commits' = commits
              /\ head' = head
              /\ HeadTree' = HeadTree]_vars

-----------------------------------------------------------------------------
(* C19 *)

\* s is ms converted to whole seconds: s seconds are within a second of ms
\* milliseconds, whichever way the fraction is dropped
WholeSeconds(ms, s) ==
    \/ s = ms \div 1000
    \/ s = (ms \div 1000) + 1 /\ ms % 1000 # 0

\* C19: the author_time of the new commit is the timestamp of the
\* descriptor converted from milliseconds to whole seconds when the
\* descriptor has a timestamp, and 1514764800 (2018-01-01T00:00:00Z) when
\* it has none.
C19_AuthorTime ==
    [][\A info \in Infos :
          (WellFormedInfo(info) /\ AddArtifact(info) /\ AddedStep) =>
              IF "timestamp" \in DOMAIN info.index
              THEN WholeSeconds(info.index.timestamp,
                                commits'[head'].author_time)
              ELSE commits'[head'].author_time = 1514764800]_vars

-----------------------------------------------------------------------------
(* C20 *)

\* the repository holds one commit, which has no parent and the empty tree,
\* and HEAD is that commit
FreshRepository ==
    /\ repo_exists
    /\ Len(commits) = 1
    /\ head = 1
    /\ commits[head].parents = <<>>
    /\ trees[commits[head].tree] = {}
    /\ blobs = <<>>

\* C20: init_repo where there is no repository creates one with exactly one
\* commit, which has no parent and the empty tree; init_repo where a
\* repository exists opens it and creates no commit and leaves head, so that
\* bootstraps between additions never alter the history.
C20_BootstrapIdempotent ==
    [][InitRepo =>
          IF repo_exists
          THEN UNCHANGED <<repo_exists, blobs, trees, commits, head, processed>>
          ELSE FreshRepository']_vars

\* the repository has just been opened by a bootstrap that followed two
\* additions, the history being the initial commit and theirs
C20_Witness ==
    /\ last.op = "init_repo"
    /\ last.result = "opened"
    /\ Len(processed) = 2
    /\ Len(commits) = 3
    /\ head = 3
    /\ commits[1].parents = <<>>
    /\ Ancestry(head) = <<3, 2, 1>>

=============================================================================
